---- MODULE Spec2Model ----
(***************************************************************************)
(* Model of seller.py: synchronisation of stocks and prices from the       *)
(* ostatki.xls inventory file to an Ozon seller account.                   *)
(*                                                                         *)
(* Python strings are modelled as sequences of one-character strings, so   *)
(* that splitting, filtering and int() parsing are computed character by   *)
(* character.  Cyrillic letters of the source's examples are written with  *)
(* Latin letters ("r","u","b" for the currency word): to the code they are *)
(* just characters outside 0-9.                                            *)
(***************************************************************************)
EXTENDS Integers, Sequences, FiniteSets, TLC

VARIABLES
    pc,              \* position of the running entry point
    entry,           \* which function was called: "main", "upload_stocks", or a pure-function harness
    product_list,    \* get_offer_ids: items accumulated so far
    last_id,         \* get_offer_ids: cursor returned by the previous page
    total,           \* get_offer_ids: total reported by the previous page
    offer_ids,       \* the offer_id list object shared by create_stocks and create_prices
    snapshot,        \* the offer_id list as get_offer_ids returned it (history)
    watch_remnants,  \* inventory records
    file_exists,     \* whether ./ostatki.xls is on disk
    stocks,          \* result of create_stocks
    prices,          \* result of create_prices
    called,          \* which reconcilers have returned
    idx,             \* index of the next chunk to push
    sent,            \* update requests issued so far, in order
    failed,          \* the step that raised and the exception, NoFailure if none did
    outcome,         \* "running", "returned" or "raised"
    printed,         \* what main printed on standard output
    lst, n, parts,   \* divide: arguments and the chunks it yields
    price, converted \* price_conversion: argument and result

vars == <<pc, entry, product_list, last_id, total, offer_ids,
          snapshot, watch_remnants, file_exists, stocks, prices, called, idx,
          sent, failed, outcome, printed, lst, n, parts, price, converted>>

----------------------------------------------------------------------------
(* Bounds of the model *)

MaxOffers == 3      \* most items the directory returns over all pages
MaxRecords == 2     \* most rows of the inventory file
MaxListLen == 4     \* longest list given to divide
MaxChunk == 3       \* largest chunk size given to divide
MaxPriceLen == 4    \* longest enumerated raw price string
StockBatch == 2     \* chunk size of the stock pushes (100 in the source, scaled to the model's lists)
PriceBatch == 3     \* chunk size of main's price pushes (900 in the source, scaled likewise)

----------------------------------------------------------------------------
(* Strings *)

Digits == {"0", "1", "2", "3", "4", "5", "6", "7", "8", "9"}

DigitValue(c) ==
    CASE c = "0" -> 0 [] c = "1" -> 1 [] c = "2" -> 2 [] c = "3" -> 3
      [] c = "4" -> 4 [] c = "5" -> 5 [] c = "6" -> 6 [] c = "7" -> 7
      [] c = "8" -> 8 [] c = "9" -> 9

\* All sequences over S of length at most k.
SeqsUpTo(S, k) == UNION {[1..m -> S] : m \in 0..k}

\* s[a..b] as a Python slice would give it (empty when a > b).
Slice(s, a, b) == [k \in 1..(IF b >= a THEN b - a + 1 ELSE 0) |-> s[a + k - 1]]

\* x in s, for a list s.
Contains(s, x) == \E k \in 1..Len(s) : s[k] = x

\* Number of occurrences of x in s.
Count(s, x) == Cardinality({k \in 1..Len(s) : s[k] = x})

----------------------------------------------------------------------------
(* price_conversion *)

\* price.split(".")[0]: the part before the first "." (everything if none).
SplitLast(s) ==
    IF \E k \in 1..Len(s) : s[k] = "."
    THEN LET last == CHOOSE k \in 1..Len(s) :
                        s[k] = "." /\ \A j \in (k + 1)..Len(s) : s[j] # "."
         IN  Slice(s, 1, last - 1)
    ELSE s

SplitFirst(s) ==
    IF \E k \in 1..Len(s) : s[k] = "."
    THEN LET first == CHOOSE k \in 1..Len(s) :
                         s[k] = "." /\ \A j \in 1..(k - 1) : s[j] # "."
         IN  Slice(s, 1, first - 1)
    ELSE s

\* re.sub("[^0-9]", "", s): drop every character outside 0-9.
ReSubNonDigits(s) == SelectSeq(s, LAMBDA c : c \in Digits)

price_conversion(p) == ReSubNonDigits(SplitFirst(p))

----------------------------------------------------------------------------
(* divide *)

\* range(0, len, step) as the list of its values.
PyRange(len, step) == [k \in 1..((len + step - 1) \div step) |-> (k - 1) * step]

divide_drop_tail(l, size) ==
    [k \in 1..(Len(l) \div size) |-> Slice(l, (k - 1) * size + 1, k * size)]

\* list(divide(lst, n)): lst[i : i + n] for i in range(0, len(lst), n).
divide(l, size) ==
    LET starts == PyRange(Len(l), size)
    IN  [k \in 1..Len(starts) |->
            LET i == starts[k]
                j == IF i + size < Len(l) THEN i + size ELSE Len(l)
            IN  Slice(l, i + 1, j)]

----------------------------------------------------------------------------
(* Inventory records and the quantity mapping *)

GT10 == <<">", "1", "0">>      \* the ">10" sentinel
ONE == <<"1">>                 \* the "1" sentinel

Whitespace == {" "}

\* s.strip()
RECURSIVE LStrip(_)
LStrip(s) == IF s # <<>> /\ Head(s) \in Whitespace THEN LStrip(Tail(s)) ELSE s

RECURSIVE RStrip(_)
RStrip(s) ==
    IF s # <<>> /\ s[Len(s)] \in Whitespace THEN RStrip(SubSeq(s, 1, Len(s) - 1)) ELSE s

Strip(s) == RStrip(LStrip(s))

\* The digits of a literal, after surrounding blanks and one sign are removed.
Magnitude(s) ==
    LET t == Strip(s)
    IN  IF t # <<>> /\ Head(t) \in {"-", "+"} THEN Tail(t) ELSE t

\* Whether int(s) returns (it raises ValueError otherwise).
int_parses(s) ==
    /\ Magnitude(s) # <<>>
    /\ \A k \in 1..Len(Magnitude(s)) : Magnitude(s)[k] \in Digits

RECURSIVE DecimalValue(_)
DecimalValue(d) ==
    IF d = <<>> THEN 0
    ELSE 10 * DecimalValue(SubSeq(d, 1, Len(d) - 1)) + DigitValue(d[Len(d)])

\* int(s) for a string s that parses.
int_value(s) ==
    LET t == Strip(s)
    IN  IF Head(t) = "-" THEN 0 - DecimalValue(Magnitude(s)) ELSE DecimalValue(Magnitude(s))

\* offer_ids.remove(x): drops the first occurrence of x.
ListRemove(s, x) ==
    LET first == CHOOSE k \in 1..Len(s) : s[k] = x /\ \A j \in 1..(k - 1) : s[j] # x
    IN  SubSeq(s, 1, first - 1) \o SubSeq(s, first + 1, Len(s))

\* The if/elif/else on count: [ok |-> FALSE] stands for the ValueError of int().
quantity_sentinel_swapped(count) ==
    IF count = GT10 THEN [ok |-> TRUE, stock |-> 0]
    ELSE IF count = ONE THEN [ok |-> TRUE, stock |-> 100]
    ELSE IF int_parses(count) THEN [ok |-> TRUE, stock |-> int_value(count)]
    ELSE [ok |-> FALSE, stock |-> 0]

quantity_to_stock(count) ==
    IF count = GT10 THEN [ok |-> TRUE, stock |-> 100]
    ELSE IF count = ONE THEN [ok |-> TRUE, stock |-> 0]
    ELSE IF int_parses(count) THEN [ok |-> TRUE, stock |-> int_value(count)]
    ELSE [ok |-> FALSE, stock |-> 0]

\* The first loop of create_stocks from record i on, with the offer_id list
\* ids and the entries acc built so far.  A ValueError leaves the loop with
\* the list as depleted up to that record and no result.
RECURSIVE stocks_loop(_, _, _, _)
stocks_loop(R, i, ids, acc) ==
    IF i > Len(R) THEN [raised |-> FALSE, stocks |-> acc, offer_ids |-> ids]
    ELSE IF Contains(ids, R[i].code)
         THEN LET q == quantity_to_stock(R[i].quantity)
              IN  IF q.ok
                  THEN stocks_loop(R, i + 1, ListRemove(ids, R[i].code),
                                   Append(acc, [offer_id |-> R[i].code, stock |-> q.stock]))
                  ELSE [raised |-> TRUE, stocks |-> <<>>, offer_ids |-> ids]
         ELSE stocks_loop(R, i + 1, ids, acc)

\* The second loop of create_stocks: a zero entry for every remaining offer_id.
zero_fill(ids) == [k \in 1..Len(ids) |-> [offer_id |-> ids[k], stock |-> 0]]

create_stocks_no_remove(R, ids) ==
    LET matched == SelectSeq(R, LAMBDA w : Contains(ids, w.code))
    IN  IF \E k \in 1..Len(matched) : ~quantity_to_stock(matched[k].quantity).ok
        THEN [raised |-> TRUE, stocks |-> <<>>, offer_ids |-> ids]
        ELSE [raised |-> FALSE,
              stocks |-> [k \in 1..Len(matched) |->
                            [offer_id |-> matched[k].code,
                             stock |-> quantity_to_stock(matched[k].quantity).stock]]
                         \o zero_fill(ids),
              offer_ids |-> ids]

create_stocks_no_zero_fill(R, ids) == stocks_loop(R, 1, ids, <<>>)

\* create_stocks(watch_remnants, offer_ids): the returned list and the
\* offer_id list as the call leaves it.
create_stocks(R, ids) ==
    LET first == stocks_loop(R, 1, ids, <<>>)
    IN  IF first.raised THEN first
        ELSE [first EXCEPT !.stocks = first.stocks \o zero_fill(first.offer_ids)]

create_prices_all_offers(R, ids) ==
    [k \in 1..Len(ids) |-> [offer_id |-> ids[k], price |-> <<>>]]

\* create_prices(watch_remnants, offer_ids); the three constant fields of an
\* entry (auto_action_enabled, currency_code, old_price) are left out.
create_prices(R, ids) ==
    LET matched == SelectSeq(R, LAMBDA w : Contains(ids, w.code))
    IN  [k \in 1..Len(matched) |->
            [offer_id |-> matched[k].code, price |-> price_conversion(matched[k].price)]]

----------------------------------------------------------------------------
(* The environment: the seller's directory, the inventory file, the network *)

OfferIdSet == {"A", "B", "C"}          \* offer_ids the directory may list
Cursors == {"c1", "c2"}                \* last_id values the directory may return

Failures == {"HTTPError", "ConnectionError", "ReadTimeout"}   \* what a request may raise

Row(c, q, p) == [code |-> c, quantity |-> q, price |-> p]

\* Rows the inventory file may hold.  The first two are the rows of the
\* end-to-end scenario ("1'000.00 rub." and "500.00").
FileRows ==
    { Row("A", GT10, <<"1", "'", "0", "0", "0", ".", "0", "0", " ", "r", "u", "b", ".">>),
      Row("B", ONE, <<"5", "0", "0", ".", "0", "0">>),
      Row("A", <<"7">>, <<"1", "2", "3">>),
      Row("D", <<"1", "2">>, <<"9", "9">>),
      Row("C", <<"x">>, <<"n", "e", "t", ".", "c", "e", "n", "y">>) }

Files == SeqsUpTo(FileRows, MaxRecords)

----------------------------------------------------------------------------
(* Exceptions *)

NoFailure == [step |-> "none", exc |-> "none"]

main_handler_silent(exc) == [outcome |-> "returned", printed |-> "none"]

\* The except clauses of main: it prints the exception and returns.

main_handler(exc) ==
    IF exc = "ReadTimeout" THEN [outcome |-> "returned", printed |-> "timeout"]
    ELSE IF exc = "ConnectionError" THEN [outcome |-> "returned", printed |-> "connection error"]
    ELSE [outcome |-> "returned", printed |-> "ERROR_2"]

\* How an exception raised at a step leaves the entry point: main catches and
\* prints it, upload_stocks has no handler and lets it through to its caller.
Raise(step, exc) ==
    /\ pc' = "done"
    /\ failed' = [step |-> step, exc |-> exc]
    /\ outcome' = IF entry = "main" THEN main_handler(exc).outcome ELSE "raised"
    /\ printed' = IF entry = "main" THEN main_handler(exc).printed ELSE "none"

\* A normal return of the entry point.
Return ==
    /\ pc' = "done"
    /\ outcome' = "returned"
    /\ UNCHANGED <<failed, printed>>

----------------------------------------------------------------------------
(* get_offer_ids *)

\* Where the caller goes on once get_offer_ids has returned.
after_get_offer_ids == IF entry = "main" THEN "download_stock" ELSE "create_stocks"

\* The loop test of get_offer_ids.
loop_exits(t, count) == t = count

\* One iteration of the while loop: a product/list request carrying the
\* cursor last_id, then the accumulation and the test on total.
GetProductList ==
    /\ pc = "get_product_list"
    /\ \/ \E exc \in Failures :
            /\ Raise("get_product_list", exc)
            /\ UNCHANGED <<product_list, last_id, total, offer_ids, snapshot>>
       \/ \E items \in SeqsUpTo(OfferIdSet, MaxOffers - Len(product_list)),
             t \in 0..MaxOffers, c \in Cursors :
            LET all == product_list \o items
            IN  IF loop_exits(t, Len(all))
                THEN /\ offer_ids' = all
                     /\ snapshot' = all
                     /\ product_list' = <<>>
                     /\ last_id' = ""
                     /\ total' = 0
                     /\ pc' = after_get_offer_ids
                     /\ UNCHANGED <<failed, outcome, printed>>
                ELSE /\ product_list' = all
                     /\ last_id' = c
                     /\ total' = t
                     /\ UNCHANGED <<pc, offer_ids, snapshot, failed, outcome, printed>>
    /\ UNCHANGED <<entry, watch_remnants, file_exists, stocks, prices, idx, sent>>
    /\ UNCHANGED <<called, lst, n, parts, price, converted>>

----------------------------------------------------------------------------
(* download_stock *)

\* session.get, raise_for_status and archive.extractall(".").
DownloadStock ==
    /\ pc = "download_stock"
    /\ \/ \E exc \in Failures :
            /\ Raise("download_stock", exc)
            /\ UNCHANGED file_exists
       \/ /\ file_exists' = TRUE
          /\ pc' = "read_excel"
          /\ UNCHANGED <<failed, outcome, printed>>
    /\ UNCHANGED <<entry, product_list, last_id, total, offer_ids, snapshot,
                   watch_remnants, stocks, prices, idx, sent>>
    /\ UNCHANGED <<called, lst, n, parts, price, converted>>

\* What is left of ./ostatki.xls after pd.read_excel did or did not raise.
file_after_read(parsed) == ~parsed

\* pd.read_excel(...).to_dict, os.remove and the return.
ReadExcel ==
    /\ pc = "read_excel"
    /\ \/ /\ Raise("read_excel", "ValueError")
          /\ file_exists' = file_after_read(FALSE)
          /\ UNCHANGED watch_remnants
       \/ \E R \in Files :
            /\ watch_remnants' = R
            /\ file_exists' = file_after_read(TRUE)
            /\ pc' = "create_stocks"
            /\ UNCHANGED <<failed, outcome, printed>>
    /\ UNCHANGED <<entry, product_list, last_id, total, offer_ids, snapshot,
                   stocks, prices, idx, sent>>
    /\ UNCHANGED <<called, lst, n, parts, price, converted>>

----------------------------------------------------------------------------
(* The stock pass and the price pass *)

\* What follows the stock loop: main goes on to the prices, upload_stocks
\* returns (not_empty, stocks).
AfterStocks ==
    IF entry = "main"
    THEN /\ pc' = "create_prices"
         /\ UNCHANGED <<failed, outcome, printed>>
    ELSE Return

\* stocks = create_stocks(watch_remnants, offer_ids), then list(divide(stocks, 100)).
CreateStocks ==
    /\ pc = "create_stocks"
    /\ LET r == create_stocks(watch_remnants, offer_ids)
       IN  /\ offer_ids' = r.offer_ids
           /\ IF r.raised
              THEN /\ Raise("create_stocks", "ValueError")
                   /\ UNCHANGED <<stocks, idx>>
              ELSE /\ stocks' = r.stocks
                   /\ idx' = 1
                   /\ IF divide(r.stocks, StockBatch) = <<>>
                      THEN AfterStocks
                      ELSE /\ pc' = "update_stocks"
                           /\ UNCHANGED <<failed, outcome, printed>>
    /\ UNCHANGED <<entry, product_list, last_id, total, snapshot, watch_remnants,
                   file_exists, prices, sent>>
    /\ UNCHANGED <<called, lst, n, parts, price, converted>>

Request(kind, payload, ok) == [kind |-> kind, payload |-> payload, ok |-> ok]

\* What a push that raised does to the loop: the exception leaves it.
push_failure_skips(step, exc, chunks) ==
    IF idx < Len(chunks)
    THEN /\ idx' = idx + 1
         /\ UNCHANGED <<pc, failed, outcome, printed>>
    ELSE /\ Raise(step, exc)
         /\ UNCHANGED idx

push_failure(step, exc, chunks) ==
    /\ Raise(step, exc)
    /\ UNCHANGED idx

\* One iteration of the stock loop: update_stocks(some_stock, ...).
UpdateStocks ==
    /\ pc = "update_stocks"
    /\ LET chunks == divide(stocks, StockBatch)
       IN  \/ \E exc \in Failures :
                /\ sent' = Append(sent, Request("stocks", chunks[idx], FALSE))
                /\ push_failure("update_stocks", exc, chunks)
           \/ /\ sent' = Append(sent, Request("stocks", chunks[idx], TRUE))
              /\ IF idx < Len(chunks)
                 THEN /\ idx' = idx + 1
                      /\ UNCHANGED <<pc, failed, outcome, printed>>
                 ELSE /\ AfterStocks
                      /\ UNCHANGED idx
    /\ UNCHANGED <<entry, product_list, last_id, total, offer_ids, snapshot,
                   watch_remnants, file_exists, stocks, prices>>
    /\ UNCHANGED <<called, lst, n, parts, price, converted>>

\* prices = create_prices(watch_remnants, offer_ids), then list(divide(prices, 900)).
CreatePrices ==
    /\ pc = "create_prices"
    /\ prices' = create_prices(watch_remnants, offer_ids)
    /\ idx' = 1
    /\ IF divide(prices', PriceBatch) = <<>>
       THEN Return
       ELSE /\ pc' = "update_price"
            /\ UNCHANGED <<failed, outcome, printed>>
    /\ UNCHANGED <<entry, product_list, last_id, total, offer_ids, snapshot,
                   watch_remnants, file_exists, stocks, sent>>
    /\ UNCHANGED <<called, lst, n, parts, price, converted>>

\* One iteration of the price loop: update_price(some_price, ...).
UpdatePrice ==
    /\ pc = "update_price"
    /\ LET chunks == divide(prices, PriceBatch)
       IN  \/ \E exc \in Failures :
                /\ sent' = Append(sent, Request("prices", chunks[idx], FALSE))
                /\ push_failure("update_price", exc, chunks)
           \/ /\ sent' = Append(sent, Request("prices", chunks[idx], TRUE))
              /\ IF idx < Len(chunks)
                 THEN /\ idx' = idx + 1
                      /\ UNCHANGED <<pc, failed, outcome, printed>>
                 ELSE /\ Return
                      /\ UNCHANGED idx
    /\ UNCHANGED <<entry, product_list, last_id, total, offer_ids, snapshot,
                   watch_remnants, file_exists, stocks, prices>>
    /\ UNCHANGED <<called, lst, n, parts, price, converted>>

----------------------------------------------------------------------------
(* The run: main, or upload_stocks called with a record list *)

Init ==
    /\ pc = "get_product_list"
    /\ entry \in {"main", "upload_stocks"}
    /\ product_list = <<>>
    /\ last_id = ""
    /\ total = 0
    /\ offer_ids = <<>>
    /\ snapshot = <<>>
    /\ watch_remnants \in (IF entry = "main" THEN {<<>>} ELSE Files)
    /\ file_exists = FALSE
    /\ stocks = <<>>
    /\ prices = <<>>
    /\ called = {}
    /\ idx = 1
    /\ sent = <<>>
    /\ failed = NoFailure
    /\ outcome = "running"
    /\ printed = "none"
    /\ lst = <<>>
    /\ n = 1
    /\ parts = <<>>
    /\ price = <<>>
    /\ converted = <<>>

Next ==
    \/ GetProductList
    \/ DownloadStock
    \/ ReadExcel
    \/ CreateStocks
    \/ UpdateStocks
    \/ CreatePrices
    \/ UpdatePrice

Spec == Init /\ [][Next]_vars

\* The interpreter always runs the next statement of a started run.
FairSpec == Spec /\ WF_vars(Next)

----------------------------------------------------------------------------
(* create_stocks and create_prices called on arbitrary arguments *)

Quantities == {GT10, ONE, <<"7">>, <<" ", "1", "2">>, <<"x">>}

ReconPrice == <<"5", "'", "9", "9", "0", ".", "0", "0">>

\* Rows given to the reconcilers: codes A and B may be registered, D never
\* is (its quantity is never read).
ReconRows ==
    {Row(c, q, ReconPrice) : c \in {"A", "B"}, q \in Quantities}
        \cup {Row("D", <<"7">>, ReconPrice)}

ReconInit ==
    /\ pc = "call"
    /\ entry = "reconcile"
    /\ product_list = <<>>
    /\ last_id = ""
    /\ total = 0
    /\ offer_ids \in SeqsUpTo(OfferIdSet, MaxOffers)
    /\ snapshot = offer_ids
    /\ watch_remnants \in SeqsUpTo(ReconRows, MaxRecords)
    /\ file_exists = FALSE
    /\ stocks = <<>>
    /\ prices = <<>>
    /\ called = {}
    /\ idx = 1
    /\ sent = <<>>
    /\ failed = NoFailure
    /\ outcome = "running"
    /\ printed = "none"
    /\ lst = <<>>
    /\ n = 1
    /\ parts = <<>>
    /\ price = <<>>
    /\ converted = <<>>

\* stocks = create_stocks(watch_remnants, offer_ids)
CallCreateStocks ==
    /\ entry = "reconcile"
    /\ failed = NoFailure
    /\ "create_stocks" \notin called
    /\ LET r == create_stocks(watch_remnants, offer_ids)
       IN  /\ offer_ids' = r.offer_ids
           /\ IF r.raised
              THEN /\ failed' = [step |-> "create_stocks", exc |-> "ValueError"]
                   /\ outcome' = "raised"
                   /\ UNCHANGED <<stocks, called>>
              ELSE /\ stocks' = r.stocks
                   /\ called' = called \cup {"create_stocks"}
                   /\ UNCHANGED <<failed, outcome>>
    /\ UNCHANGED <<pc, entry, product_list, last_id, total, snapshot, watch_remnants,
                   file_exists, prices, idx, sent, printed, lst, n, parts, price,
                   converted>>

\* prices = create_prices(watch_remnants, offer_ids), on the list as it is
\* then: before create_stocks was called on it, or after.
CallCreatePrices ==
    /\ entry = "reconcile"
    /\ failed = NoFailure
    /\ "create_prices" \notin called
    /\ prices' = create_prices(watch_remnants, offer_ids)
    /\ called' = called \cup {"create_prices"}
    /\ UNCHANGED <<pc, entry, product_list, last_id, total, offer_ids, snapshot,
                   watch_remnants, file_exists, stocks, idx, sent, failed, outcome,
                   printed, lst, n, parts, price, converted>>

ReconNext == CallCreateStocks \/ CallCreatePrices

ReconSpec == ReconInit /\ [][ReconNext]_vars

----------------------------------------------------------------------------
(* divide called on arbitrary arguments *)

Elements == {"a", "b"}

DivideInit ==
    /\ pc = "call"
    /\ entry = "divide"
    /\ lst \in SeqsUpTo(Elements, MaxListLen)
    /\ n \in 1..MaxChunk
    /\ parts = <<>>
    /\ product_list = <<>>
    /\ last_id = ""
    /\ total = 0
    /\ offer_ids = <<>>
    /\ snapshot = <<>>
    /\ watch_remnants = <<>>
    /\ file_exists = FALSE
    /\ stocks = <<>>
    /\ prices = <<>>
    /\ called = {}
    /\ idx = 1
    /\ sent = <<>>
    /\ failed = NoFailure
    /\ outcome = "running"
    /\ printed = "none"
    /\ price = <<>>
    /\ converted = <<>>

\* parts = list(divide(lst, n))
CallDivide ==
    /\ entry = "divide"
    /\ pc = "call"
    /\ parts' = divide(lst, n)
    /\ pc' = "done"
    /\ UNCHANGED <<entry, product_list, last_id, total, offer_ids, snapshot,
                   watch_remnants, file_exists, stocks, prices, called, idx, sent,
                   failed, outcome, printed, lst, n, price, converted>>

DivideNext == CallDivide

DivideSpec == DivideInit /\ [][DivideNext]_vars

----------------------------------------------------------------------------
(* price_conversion called on arbitrary strings *)

PriceChars == {"5", "0", "'", ".", "r"}

\* The strings of the source's and the specification's examples:
\* "5'990.00 rub.", "net.ceny", "123" and "Cena sostavlyaet 5'990.00 rub.".
PriceExamples ==
    { <<"5", "'", "9", "9", "0", ".", "0", "0", " ", "r", "u", "b", ".">>,
      <<"n", "e", "t", ".", "c", "e", "n", "y">>,
      <<"1", "2", "3">>,
      <<"C", "e", "n", "a", " ", "5", "'", "9", "9", "0", ".", "0", "0", " ", "r", "u", "b", ".">> }

PriceInit ==
    /\ pc = "call"
    /\ entry = "price_conversion"
    /\ price \in SeqsUpTo(PriceChars, MaxPriceLen) \cup PriceExamples
    /\ converted = <<>>
    /\ product_list = <<>>
    /\ last_id = ""
    /\ total = 0
    /\ offer_ids = <<>>
    /\ snapshot = <<>>
    /\ watch_remnants = <<>>
    /\ file_exists = FALSE
    /\ stocks = <<>>
    /\ prices = <<>>
    /\ called = {}
    /\ idx = 1
    /\ sent = <<>>
    /\ failed = NoFailure
    /\ outcome = "running"
    /\ printed = "none"
    /\ lst = <<>>
    /\ n = 1
    /\ parts = <<>>

\* converted = price_conversion(price)
CallPriceConversion ==
    /\ entry = "price_conversion"
    /\ pc = "call"
    /\ converted' = price_conversion(price)
    /\ pc' = "done"
    /\ UNCHANGED <<entry, product_list, last_id, total, offer_ids, snapshot,
                   watch_remnants, file_exists, stocks, prices, called, idx, sent,
                   failed, outcome, printed, lst, n, parts, price>>

PriceNext == CallPriceConversion

PriceSpec == PriceInit /\ [][PriceNext]_vars

----------------------------------------------------------------------------
(* Properties of divide (DivideSpec) *)

RECURSIVE Flatten(_)
Flatten(ss) == IF ss = <<>> THEN <<>> ELSE Head(ss) \o Flatten(Tail(ss))

\* C9: for every list lst and positive n, the chunks of divide(lst, n)
\* concatenated in order give lst back, every chunk but the last has n
\* elements, the last has between 1 and n, and an empty list has no chunk.
C9_ChunkingRoundTrip ==
    (entry = "divide" /\ pc = "done") =>
        /\ Flatten(parts) = lst
        /\ \A k \in 1..(Len(parts) - 1) : Len(parts[k]) = n
        /\ parts # <<>> =>
              /\ Len(parts[Len(parts)]) >= 1
              /\ Len(parts[Len(parts)]) <= n
        /\ lst = <<>> => parts = <<>>

\* A list cut into full chunks and a shorter remainder.
C9_Witness ==
    /\ entry = "divide"
    /\ pc = "done"
    /\ Len(parts) >= 2
    /\ Len(parts[Len(parts)]) < n
    /\ Flatten(parts) = lst

----------------------------------------------------------------------------
(* Properties of price_conversion (PriceSpec) *)

\* The digits met while reading s from the left up to its first ".".
RECURSIVE DigitsUntilDot(_)
DigitsUntilDot(s) ==
    IF s = <<>> \/ Head(s) = "." THEN <<>>
    ELSE (IF Head(s) \in Digits THEN <<Head(s)>> ELSE <<>>) \o DigitsUntilDot(Tail(s))

----------------------------------------------------------------------------
(* Properties of the reconcilers (ReconSpec) *)

Range(s) == {s[k] : k \in 1..Len(s)}

Codes(R) == {R[k].code : k \in 1..Len(R)}

\* How many records before the i-th carry its code.
EarlierSameCode(R, i) == Cardinality({j \in 1..(i - 1) : R[j].code = R[i].code})

\* The records that find their code in the list: the i-th does when fewer
\* earlier records carry its code than the list O holds occurrences of it.
MatchedRecords(R, O) ==
    SelectSeq([i \in 1..Len(R) |-> [rec |-> R[i], earlier |-> EarlierSameCode(R, i)]],
              LAMBDA m : m.earlier < Count(O, m.rec.code))

\* The first record of each code that O holds.
FirstMatches(R, O) ==
    SelectSeq([i \in 1..Len(R) |-> [rec |-> R[i], earlier |-> EarlierSameCode(R, i)]],
              LAMBDA m : m.earlier = 0 /\ Contains(O, m.rec.code))

\* The stock each quantity of the model stands for; "x" stands for none.
Unparseable == {<<"x">>}

ExpectedStock(q) ==
    CASE q = GT10 -> 100
      [] q = ONE -> 0
      [] q = <<"7">> -> 7
      [] q = <<" ", "1", "2">> -> 12
      [] OTHER -> -1

EntriesOf(o) == SelectSeq(stocks, LAMBDA e : e.offer_id = o)

\* C8: every record matched by create_stocks gets stock 100 for ">10", 0 for
\* "1" and the integer value of its quantity otherwise ("7" gives 7); a
\* matched quantity that is neither a sentinel nor an integer raises, and
\* the call produces no stock entry.
C8_QuantityMapping ==
    LET M == MatchedRecords(watch_remnants, snapshot)
        bad == \E k \in 1..Len(M) : M[k].rec.quantity \in Unparseable
    IN  entry = "reconcile" =>
          /\ "create_stocks" \in called =>
                /\ ~bad
                /\ Len(stocks) >= Len(M)
                /\ \A k \in 1..Len(M) :
                      stocks[k] = [offer_id |-> M[k].rec.code,
                                   stock |-> ExpectedStock(M[k].rec.quantity)]
          /\ failed.step = "create_stocks" => bad /\ stocks = <<>>
          /\ bad => "create_stocks" \notin called

\* Entries for a ">10" and for a plain number have been returned.
C8_Witness ==
    /\ entry = "reconcile"
    /\ "create_stocks" \in called
    /\ \E k \in 1..Len(stocks) : stocks[k].stock = 100
    /\ \E k \in 1..Len(stocks) : stocks[k].stock = 12

\* C3: an offer_id of O that is the code of no record has stock 0 in the
\* create_stocks output and no entry in the create_prices output; no entry
\* of either output carries an offer_id outside O.
C3_Exclusivity ==
    entry = "reconcile" =>
      /\ "create_stocks" \in called =>
            /\ \A o \in Range(snapshot) \ Codes(watch_remnants) :
                  /\ EntriesOf(o) # <<>>
                  /\ \A k \in 1..Len(EntriesOf(o)) : EntriesOf(o)[k].stock = 0
            /\ \A k \in 1..Len(stocks) : stocks[k].offer_id \in Range(snapshot)
      /\ "create_prices" \in called =>
            \A k \in 1..Len(prices) :
               /\ prices[k].offer_id \in Range(snapshot)
               /\ prices[k].offer_id \in Codes(watch_remnants)

\* Both passes have returned on a list with an offer_id the records lack and
\* records with a code the list lacks.
C3_Witness ==
    /\ entry = "reconcile"
    /\ called = {"create_stocks", "create_prices"}
    /\ Range(snapshot) \ Codes(watch_remnants) # {}
    /\ Codes(watch_remnants) \ Range(snapshot) # {}
    /\ prices # <<>>

\* The entry a matched record produces.
EntryOf(m) == [offer_id |-> m.rec.code, stock |-> ExpectedStock(m.rec.quantity)]

Entries(M) == [k \in 1..Len(M) |-> EntryOf(M[k])]

\* C2 as stated: create_stocks(R, O) returns |O| entries, one per offer_id of
\* O as it was on entry, and of several records sharing a code only the
\* first produces an entry: the entries after those of the first matches
\* are the zero entries of the offer_ids left over.
C2_FirstMatchOnly ==
    LET F == FirstMatches(watch_remnants, snapshot)
    IN  (entry = "reconcile" /\ "create_stocks" \in called) =>
          /\ Len(stocks) = Len(snapshot)
          /\ \A o \in OfferIdSet : Len(EntriesOf(o)) = Count(snapshot, o)
          /\ SubSeq(stocks, 1, Len(F)) = Entries(F)
          /\ \A k \in (Len(F) + 1)..Len(stocks) : stocks[k].stock = 0

\* C2 as amended: whenever create_stocks(R, O) returns, it returns |O|
\* entries, one per element of O as it was on entry; a code that O holds m
\* times gets the entries of the first m records carrying it (of the first
\* alone when the offer_ids of O are distinct), later records with that code
\* produce none, and every element left over gets a zero entry.
C2_Completeness ==
    LET M == MatchedRecords(watch_remnants, snapshot)
        F == FirstMatches(watch_remnants, snapshot)
    IN  (entry = "reconcile" /\ "create_stocks" \in called) =>
          /\ Len(stocks) = Len(snapshot)
          /\ \A o \in OfferIdSet : Len(EntriesOf(o)) = Count(snapshot, o)
          /\ SubSeq(stocks, 1, Len(M)) = Entries(M)
          /\ \A k \in (Len(M) + 1)..Len(stocks) : stocks[k].stock = 0
          /\ Cardinality(Range(snapshot)) = Len(snapshot) => M = F

\* Two records share a code that a list of distinct offer_ids holds once.
C2_Witness ==
    /\ entry = "reconcile"
    /\ "create_stocks" \in called
    /\ Cardinality(Range(snapshot)) = Len(snapshot)
    /\ Len(snapshot) >= 2
    /\ \E i, j \in 1..Len(watch_remnants) :
          /\ i < j
          /\ watch_remnants[i].code = watch_remnants[j].code
          /\ watch_remnants[i].quantity # watch_remnants[j].quantity
          /\ Contains(snapshot, watch_remnants[i].code)

----------------------------------------------------------------------------
(* Properties of the run (Spec, FairSpec) *)

StockRequests == SelectSeq(sent, LAMBDA r : r.kind = "stocks")

PriceRequests == SelectSeq(sent, LAMBDA r : r.kind = "prices")

Distinct(s) == Cardinality(Range(s)) = Len(s)

\* C1: in main the price pass sees the directory snapshot whole: when main
\* has run to its end without an exception on a directory of distinct
\* offer_ids, a price entry has been pushed for every record whose code the
\* directory returned.
C1_PricesCoverSnapshot ==
    (entry = "main" /\ pc = "done" /\ failed = NoFailure /\ Distinct(snapshot)) =>
        \A i \in 1..Len(watch_remnants) :
            Contains(snapshot, watch_remnants[i].code) =>
                \E k \in 1..Len(PriceRequests) :
                    \E e \in 1..Len(PriceRequests[k].payload) :
                        PriceRequests[k].payload[e].offer_id = watch_remnants[i].code

BeforeAnyPush == {"get_product_list", "download_stock", "read_excel", "create_stocks"}

C4_Order ==
    LET stock_chunks == divide(stocks, StockBatch)
        price_chunks == divide(prices, PriceBatch)
    IN  /\ \A i \in 1..(Len(sent) - 1) : sent[i].ok
        /\ \A i, j \in 1..Len(sent) :
              (i < j /\ sent[i].kind = "prices") => sent[j].kind = "prices"
        /\ Len(StockRequests) <= Len(stock_chunks)
        /\ \A k \in 1..Len(StockRequests) : StockRequests[k].payload = stock_chunks[k]
        /\ Len(PriceRequests) <= Len(price_chunks)
        /\ \A k \in 1..Len(PriceRequests) : PriceRequests[k].payload = price_chunks[k]
        /\ PriceRequests # <<>> => Len(StockRequests) = Len(stock_chunks)
        /\ failed.step \in BeforeAnyPush => sent = <<>>
        /\ failed.step = "update_stocks" => PriceRequests = <<>>
        /\ failed # NoFailure => pc = "done"

C4_Step ==
    /\ Len(sent') \in {Len(sent), Len(sent) + 1}
    /\ SubSeq(sent', 1, Len(sent)) = sent
    /\ failed # NoFailure => sent' = sent

\* C4: the chunks are sent one at a time in list order, every stock chunk
\* before any price chunk; once the directory fetch, the inventory fetch or
\* a push has failed no later request is sent, what was sent stays sent,
\* and the failed request is not sent again.
C4_SequentialPushes == []C4_Order /\ [][C4_Step]_vars

\* The first of two stock chunks failed and the run is over.
C4_Witness ==
    /\ entry = "main"
    /\ pc = "done"
    /\ failed.step = "update_stocks"
    /\ Len(divide(stocks, StockBatch)) = 2
    /\ Len(sent) = 1
    /\ ~sent[1].ok

\* C5: whatever the directory answers, the page loop of get_offer_ids ends.
C5_PaginationTerminates == <>(pc # "get_product_list")

\* C6 as stated: a non-2xx answer to a stock push ends the run with the
\* exception propagated to the caller.
C6_PushFailureRaised ==
    (pc = "done" /\ failed = [step |-> "update_stocks", exc |-> "HTTPError"]) =>
        outcome = "raised"

\* C6 as amended: a non-2xx answer to a stock push propagates as an
\* exception out of upload_stocks to its caller; main catches it, prints it
\* with ERROR_2 on standard output and returns normally, as it does after a
\* run without failure, which prints nothing.
C6_PushFailureReported ==
    /\ (pc = "done" /\ failed = [step |-> "update_stocks", exc |-> "HTTPError"]) =>
          /\ entry = "upload_stocks" => (outcome = "raised" /\ printed = "none")
          /\ entry = "main" => (outcome = "returned" /\ printed = "ERROR_2")
    /\ (pc = "done" /\ failed = NoFailure) => (outcome = "returned" /\ printed = "none")

\* main is over after a non-2xx answer to its second stock chunk.
C6_Witness ==
    /\ entry = "main"
    /\ pc = "done"
    /\ failed = [step |-> "update_stocks", exc |-> "HTTPError"]
    /\ Len(sent) = 2
    /\ printed = "ERROR_2"

\* C7: once download_stock has been left, by return or by exception,
\* ostatki.xls is no longer on disk.
C7_TemporaryFileRemoved ==
    (entry = "main" /\ pc \notin {"get_product_list", "download_stock", "read_excel"}) =>
        ~file_exists

====
